---------------------------- MODULE Spec2Model ----------------------------
(***************************************************************************)
(* Model of the lock-free single-producer/single-consumer ring buffer of   *)
(* src/src/ring_buffer.rs, of the two driver loops that use it             *)
(* (src/benchmarks/ring_buffer.rs, src/src/main.rs) and of the             *)
(* mutex-guarded baseline queue of src/src/vecdeque.rs.                    *)
(*                                                                         *)
(* Every access to shared memory is one step: a load of head or tail, a    *)
(* store into a slot, a load of a slot, a fetch_add on head or tail.       *)
(* Computation on a thread's locals is folded into the shared access that  *)
(* precedes it.  All cursor accesses are SeqCst, so interleaving the       *)
(* steps of the two threads gives every behaviour of the program.          *)
(*                                                                         *)
(* The elements offered by write calls are numbered: the slice offered     *)
(* after k elements were accepted is <<k+1, k+2, ...>>, so the element     *)
(* accepted at counter position p (counting from 0) has the value p+1,     *)
(* and 0 is the zeroed value RingBuffer::new fills the storage with.       *)
(***************************************************************************)
EXTENDS Integers, Sequences, FiniteSets, TLC

\* Bounds of the concurrent specification Spec: capacities 0..MaxCap,
\* slices of 0..MaxBurst elements, and no further write call once MaxElems
\* elements were accepted (enough to carry both cursors past their wrap).
MaxCap == 3
MaxBurst == 3
MaxElems == 34

\* Bounds of the driver loops' specification SpecBench.
BenchMaxCap == 3
BenchMaxBurst == 2
BenchMaxElems == 4

\* Bounds of the sequential specification SpecSeq.
SeqMaxCap == 4
SeqMaxBurst == 4
SeqMaxElems == 5

\* Bounds of the baseline queue's specification SpecQueue.
QMaxCap == 3
QMaxBurst == 3
QMaxElems == 6

\* The width of the cursors and of every index.  The program's is 32 bits
\* (AtomicU32, u32); the model scales it down so that a run from
\* construction carries the cursors past their wrap.  2^4 and 2^32 leave
\* the same remainder modulo every capacity from 1 to 6, so the slot of a
\* wrapped cursor is computed as the program computes it.
CounterBits == 4

Modulus == 2 ^ CounterBits

VARIABLES
    capacity,   \* RingBufferInner.capacity
    buffer,     \* RingBufferInner.buffer: slot -> element
    head,       \* RingBufferInner.head
    tail,       \* RingBufferInner.tail
    writer,     \* Writer.current_index and the locals of the running write
    reader,     \* Reader.current_index and the locals of the running read
    written,    \* history: the elements accepted by writes, in order
    consumed,   \* history: the elements returned by reads, in order
    bench,      \* the locals of the two driver loops of ring_buffer_1
    ref         \* the baseline queue run beside a sequential run

vars == <<capacity, buffer, head, tail, writer, reader, written, consumed,
          bench, ref>>

----------------------------------------------------------------------------
(* u32 arithmetic *)

WrappingAdd(a, b) == (a + b) % Modulus

WrappingSub(a, b) == (a - b + Modulus) % Modulus

Min(a, b) == IF a <= b THEN a ELSE b

IsPrefix(s, t) ==
    /\ Len(s) <= Len(t)
    /\ \A i \in 1..Len(s) : s[i] = t[i]

Zeros(n) == [i \in 1..n |-> 0]

----------------------------------------------------------------------------
(* The pure parts of Writer and Reader *)

\* A plausible slip: the fill level is forgotten.
WriterAvailable_IgnoresFill(cap, head_index, tail_index) == cap

\* A plausible slip: one slot too many is granted.
WriterAvailable_OffByOne(cap, head_index, tail_index) ==
    (cap - WrappingSub(tail_index, head_index) + 1 + Modulus) % Modulus

\* A plausible slip: the ring keeps one slot free to tell full from empty.
WriterAvailable_KeepsOneFree(cap, head_index, tail_index) ==
    IF WrappingSub(tail_index, head_index) < cap
    THEN cap - WrappingSub(tail_index, head_index) - 1
    ELSE 0

\* Writer::available: capacity - tail.wrapping_sub(head).  The subtraction
\* from capacity is a plain u32 subtraction; WriterAvailableOverflows says
\* when it underflows.
WriterAvailable(cap, head_index, tail_index) ==
    (cap - WrappingSub(tail_index, head_index) + Modulus) % Modulus

WriterAvailableOverflows(cap, head_index, tail_index) ==
    WrappingSub(tail_index, head_index) > cap

\* Reader::available: tail.wrapping_sub(head).
ReaderAvailable(head_index, tail_index) == WrappingSub(tail_index, head_index)

\* Writer::get_mut: (current_index.wrapping_add(index)) % capacity.
WriterSlot(current_index, index, cap) == WrappingAdd(current_index, index) % cap

\* Reader::get: (current_index.wrapping_add(index)) % capacity.
ReaderSlot(current_index, index, cap) == WrappingAdd(current_index, index) % cap

\* A plausible slip: fetch_sub for fetch_add.
AdvanceTailIndex_Sub(t, offset) == WrappingSub(t, offset)

\* RingBuffer::advance_tail_index: tail.fetch_add(offset), the new value.
AdvanceTailIndex(t, offset) == WrappingAdd(t, offset)

\* A plausible slip: fetch_sub for fetch_add.
AdvanceHeadIndex_Sub(h, offset) == WrappingSub(h, offset)

\* RingBuffer::advance_head_index: head.fetch_add(offset), the new value.
AdvanceHeadIndex(h, offset) == WrappingAdd(h, offset)

\* A plausible slip: the burst is stored but advance_index is never called.
WriteFlow_SkipsAdvance(pc, index, burst) ==
    CASE pc = "tail"    -> IF burst > 0 THEN "store" ELSE "ret"
      [] pc = "store"   -> IF index + 1 < burst THEN "store" ELSE "ret"
      [] pc = "advance" -> "ret"

\* The order of the steps of Writer::write once space was granted: the
\* stores of the burst, then advance_index, then the return.
WriteFlow(pc, index, burst) ==
    CASE pc = "tail"    -> IF burst > 0 THEN "store" ELSE "advance"
      [] pc = "store"   -> IF index + 1 < burst THEN "store" ELSE "advance"
      [] pc = "advance" -> "ret"

\* The order of the steps of Reader::read once data was granted: the loads
\* of the burst, then advance_index, then the return.
ReadFlow(pc, index, burst) ==
    CASE pc = "tail"    -> IF burst > 0 THEN "load" ELSE "advance"
      [] pc = "load"    -> IF index + 1 < burst THEN "load" ELSE "advance"
      [] pc = "advance" -> "ret"

----------------------------------------------------------------------------
(* Construction *)

\* History of a call, read by the properties only: the cursors, the
\* handle's current_index, the storage (for a write) and the caller's
\* buffer (for a read) at the moment of the call.
NoCall == [head |-> 0, tail |-> 0, current_index |-> 0, storage |-> <<>>,
           out |-> <<>>]

\* Writer::new / Reader::new: current_index is the cursor at construction;
\* the other fields are the locals of a call, dead while pc = "idle".
Handle(current_index) ==
    [current_index |-> current_index, pc |-> "idle", buf |-> <<>>,
     head_index |-> 0, tail_index |-> 0, burst_size |-> 0, index |-> 0,
     ret |-> 0, pre |-> NoCall]

NoBench == [v1 |-> 0, v2 |-> 0, w_index |-> 0, r_index |-> 0,
            read_buffer |-> <<>>]

NoRef == [queue |-> <<>>, ret |-> 0, data |-> <<>>, scen |-> 0,
          lock |-> "free"]

\* RingBuffer::new(cap): zeroed storage of cap slots, head = tail = 0.
New(cap) ==
    /\ capacity = cap
    /\ buffer = [s \in 0..(cap - 1) |-> 0]
    /\ head = 0
    /\ tail = 0
    /\ writer = Handle(0)
    /\ reader = Handle(0)
    /\ written = <<>>
    /\ consumed = <<>>

Init ==
    /\ \E cap \in 0..MaxCap : New(cap)
    /\ bench = NoBench
    /\ ref = NoRef

----------------------------------------------------------------------------
(* Writer::write, step by step *)

\* The caller's slice of n elements, numbered on from the accepted ones.
Offer(n) == [i \in 1..n |-> Len(written) + i]

WriteBegin(elements) ==
    /\ writer.pc = "idle"
    /\ writer' = [writer EXCEPT
         !.pc = "head", !.buf = elements,
         !.pre = [head |-> head, tail |-> tail,
                  current_index |-> writer.current_index,
                  storage |-> buffer, out |-> <<>>]]

\* A caller calls write with a slice of n elements.
W_call ==
    /\ Len(written) < MaxElems
    /\ \E n \in 0..MaxBurst : WriteBegin(Offer(n))
    /\ UNCHANGED <<capacity, buffer, head, tail, reader, written, consumed,
                   bench, ref>>

\* Writer::available, first load: head.
W_head ==
    /\ writer.pc = "head"
    /\ writer' = [writer EXCEPT !.pc = "tail", !.head_index = head]
    /\ UNCHANGED <<capacity, buffer, head, tail, reader, written, consumed,
                   bench, ref>>

\* A plausible slip: a write that finds no space waits for the reader,
\* loading the cursors again until there is some.
W_tail_Spins ==
    /\ writer.pc = "tail"
    /\ LET available == WriterAvailable(capacity, writer.head_index, tail)
           burst == Min(available, Len(writer.buf) % Modulus)
       IN  IF available > 0
           THEN writer' = [writer EXCEPT !.pc = WriteFlow("tail", 0, burst),
                                         !.tail_index = tail,
                                         !.burst_size = burst,
                                         !.index = 0]
           ELSE writer' = [writer EXCEPT !.pc = "head", !.tail_index = tail]
    /\ UNCHANGED <<capacity, buffer, head, tail, reader, written, consumed,
                   bench, ref>>

\* Writer::available, second load: tail; then the branch of write on
\* available > 0 and burst_size = min(available, buffer.len()).  An
\* underflow of capacity - (tail - head) panics in a build with overflow
\* checks and wraps in one without.
W_tail ==
    /\ writer.pc = "tail"
    /\ LET available == WriterAvailable(capacity, writer.head_index, tail)
           burst == Min(available, Len(writer.buf) % Modulus)
       IN  IF WriterAvailableOverflows(capacity, writer.head_index, tail)
           THEN \E checked \in BOOLEAN :
                  writer' = IF checked
                            THEN [writer EXCEPT !.pc = "panic", !.tail_index = tail]
                            ELSE [writer EXCEPT !.pc = WriteFlow("tail", 0, burst),
                                                !.tail_index = tail,
                                                !.burst_size = burst,
                                                !.index = 0]
           ELSE IF available > 0
           THEN writer' = [writer EXCEPT !.pc = WriteFlow("tail", 0, burst),
                                         !.tail_index = tail,
                                         !.burst_size = burst,
                                         !.index = 0]
           ELSE writer' = [writer EXCEPT !.pc = "ret", !.tail_index = tail,
                                         !.ret = 0]
    /\ UNCHANGED <<capacity, buffer, head, tail, reader, written, consumed,
                   bench, ref>>

\* One pass of the loop of write: *get_mut(index) = buffer[index].  The
\* remainder by a capacity of 0 panics.
W_store ==
    /\ writer.pc = "store"
    /\ IF capacity = 0
       THEN /\ writer' = [writer EXCEPT !.pc = "panic"]
            /\ UNCHANGED buffer
       ELSE /\ buffer' = [buffer EXCEPT
                 ![WriterSlot(writer.current_index, writer.index, capacity)] =
                     writer.buf[writer.index + 1]]
            /\ writer' = [writer EXCEPT
                 !.pc = WriteFlow("store", writer.index, writer.burst_size),
                 !.index = writer.index + 1]
    /\ UNCHANGED <<capacity, head, tail, reader, written, consumed, bench, ref>>

\* A plausible slip: current_index becomes the previous tail, the offset
\* forgotten.
W_advance_StaleIndex ==
    /\ writer.pc = "advance"
    /\ tail' = AdvanceTailIndex(tail, writer.burst_size)
    /\ writer' = [writer EXCEPT
         !.pc = WriteFlow("advance", writer.index, writer.burst_size),
         !.current_index = tail,
         !.ret = writer.burst_size]
    /\ written' = written \o SubSeq(writer.buf, 1, writer.burst_size)
    /\ UNCHANGED <<capacity, buffer, head, reader, consumed, bench, ref>>

\* Writer::advance_index: tail.fetch_add(burst_size), and current_index
\* becomes the previous tail plus burst_size.
W_advance ==
    /\ writer.pc = "advance"
    /\ tail' = AdvanceTailIndex(tail, writer.burst_size)
    /\ writer' = [writer EXCEPT
         !.pc = WriteFlow("advance", writer.index, writer.burst_size),
         !.current_index = WrappingAdd(tail, writer.burst_size),
         !.ret = writer.burst_size]
    /\ written' = written \o SubSeq(writer.buf, 1, writer.burst_size)
    /\ UNCHANGED <<capacity, buffer, head, reader, consumed, bench, ref>>

\* write returns writer.ret to its caller; its locals die.
WriteEnd ==
    /\ writer.pc = "ret"
    /\ writer' = Handle(writer.current_index)

W_return ==
    /\ WriteEnd
    /\ UNCHANGED <<capacity, buffer, head, tail, reader, written, consumed,
                   bench, ref>>

----------------------------------------------------------------------------
(* Reader::read, step by step *)

ReadBegin(out) ==
    /\ reader.pc = "idle"
    /\ reader' = [reader EXCEPT
         !.pc = "head", !.buf = out,
         !.pre = [head |-> head, tail |-> tail,
                  current_index |-> reader.current_index,
                  storage |-> <<>>, out |-> out]]

\* A caller calls read with a buffer of n elements.
R_call ==
    /\ \E n \in 0..MaxBurst : ReadBegin(Zeros(n))
    /\ UNCHANGED <<capacity, buffer, head, tail, writer, written, consumed,
                   bench, ref>>

\* Reader::available, first load: head.
R_head ==
    /\ reader.pc = "head"
    /\ reader' = [reader EXCEPT !.pc = "tail", !.head_index = head]
    /\ UNCHANGED <<capacity, buffer, head, tail, writer, written, consumed,
                   bench, ref>>

\* Reader::available, second load: tail; then the branch of read on
\* available > 0 and burst_size = min(available, buffer.len()).
R_tail ==
    /\ reader.pc = "tail"
    /\ LET available == ReaderAvailable(reader.head_index, tail)
           burst == Min(available, Len(reader.buf) % Modulus)
       IN  IF available > 0
           THEN reader' = [reader EXCEPT !.pc = ReadFlow("tail", 0, burst),
                                         !.tail_index = tail,
                                         !.burst_size = burst,
                                         !.index = 0]
           ELSE reader' = [reader EXCEPT !.pc = "ret", !.tail_index = tail,
                                         !.ret = 0]
    /\ UNCHANGED <<capacity, buffer, head, tail, writer, written, consumed,
                   bench, ref>>

\* One pass of the loop of read: buffer[index] = *get(index).  The
\* remainder by a capacity of 0 panics.
R_load ==
    /\ reader.pc = "load"
    /\ IF capacity = 0
       THEN reader' = [reader EXCEPT !.pc = "panic"]
       ELSE reader' = [reader EXCEPT
              !.pc = ReadFlow("load", reader.index, reader.burst_size),
              !.buf[reader.index + 1] =
                  buffer[ReaderSlot(reader.current_index, reader.index, capacity)],
              !.index = reader.index + 1]
    /\ UNCHANGED <<capacity, buffer, head, tail, writer, written, consumed,
                   bench, ref>>

\* A plausible slip: Reader::advance_index calls advance_tail_index, as
\* Writer::advance_index does.
R_advance_WrongCursor ==
    /\ reader.pc = "advance"
    /\ tail' = AdvanceTailIndex(tail, reader.burst_size)
    /\ reader' = [reader EXCEPT
         !.pc = ReadFlow("advance", reader.index, reader.burst_size),
         !.current_index = WrappingAdd(tail, reader.burst_size),
         !.ret = reader.burst_size]
    /\ consumed' = consumed \o SubSeq(reader.buf, 1, reader.burst_size)
    /\ UNCHANGED <<capacity, buffer, head, writer, written, bench, ref>>

\* Reader::advance_index: head.fetch_add(burst_size), and current_index
\* becomes the previous head plus burst_size.
R_advance ==
    /\ reader.pc = "advance"
    /\ head' = AdvanceHeadIndex(head, reader.burst_size)
    /\ reader' = [reader EXCEPT
         !.pc = ReadFlow("advance", reader.index, reader.burst_size),
         !.current_index = WrappingAdd(head, reader.burst_size),
         !.ret = reader.burst_size]
    /\ consumed' = consumed \o SubSeq(reader.buf, 1, reader.burst_size)
    /\ UNCHANGED <<capacity, buffer, tail, writer, written, bench, ref>>

\* read returns reader.ret to its caller; its locals die.
ReadEnd ==
    /\ reader.pc = "ret"
    /\ reader' = Handle(reader.current_index)

R_return ==
    /\ ReadEnd
    /\ UNCHANGED <<capacity, buffer, head, tail, writer, written, consumed,
                   bench, ref>>

----------------------------------------------------------------------------
(* One producer thread and one consumer thread calling write and read *)

Next ==
    \/ W_call \/ W_head \/ W_tail \/ W_store \/ W_advance \/ W_return
    \/ R_call \/ R_head \/ R_tail \/ R_load \/ R_advance \/ R_return

Spec == Init /\ [][Next]_vars

----------------------------------------------------------------------------
(* ring_buffer_1 (benchmarks) and test_ring_buffer_1 (main.rs): a producer *)
(* loop and a consumer loop moving v1 values in bursts of v2               *)

\* write_buffer = (0..v1).collect(): the slice [index, index + n).
WriteBufferSlice(index, n) == [i \in 1..n |-> index + i - 1]

\* The callers pass v1 a multiple of v2 (100_000 and 1, 100_000 and 100).
InitBench ==
    /\ \E cap \in 1..BenchMaxCap : New(cap)
    /\ \E b \in 1..BenchMaxBurst : \E k \in 1..(BenchMaxElems \div b) :
         bench = [v1 |-> k * b, v2 |-> b, w_index |-> 0, r_index |-> 0,
                  read_buffer |-> Zeros(k * b)]
    /\ ref = NoRef

\* while index != v1 { writer.write(&write_buffer[index..index + v2]) ...
\* Slicing past the end of write_buffer panics.
BW_loop ==
    /\ writer.pc = "idle"
    /\ IF bench.w_index = bench.v1
       THEN writer' = [writer EXCEPT !.pc = "done"]
       ELSE IF bench.w_index + bench.v2 > bench.v1
       THEN writer' = [writer EXCEPT !.pc = "panic"]
       ELSE WriteBegin(WriteBufferSlice(bench.w_index, bench.v2))
    /\ UNCHANGED <<capacity, buffer, head, tail, reader, written, consumed,
                   bench, ref>>

\* ... index += n as usize }
BW_return ==
    /\ WriteEnd
    /\ bench' = [bench EXCEPT !.w_index = @ + writer.ret]
    /\ UNCHANGED <<capacity, buffer, head, tail, reader, written, consumed, ref>>

\* while index != v1 { reader.read(&mut read_buffer[index..index + v2]) ...
\* Slicing past the end of read_buffer panics.
BR_loop ==
    /\ reader.pc = "idle"
    /\ IF bench.r_index = bench.v1
       THEN reader' = [reader EXCEPT !.pc = "done"]
       ELSE IF bench.r_index + bench.v2 > bench.v1
       THEN reader' = [reader EXCEPT !.pc = "panic"]
       ELSE ReadBegin(SubSeq(bench.read_buffer, bench.r_index + 1,
                             bench.r_index + bench.v2))
    /\ UNCHANGED <<capacity, buffer, head, tail, writer, written, consumed,
                   bench, ref>>

\* ... index += n as usize }: the slice read wrote into is read_buffer's.
BR_return ==
    /\ ReadEnd
    /\ bench' = [bench EXCEPT
         !.r_index = @ + reader.ret,
         !.read_buffer = [i \in 1..bench.v1 |->
            IF i > bench.r_index /\ i <= bench.r_index + Len(reader.buf)
            THEN reader.buf[i - bench.r_index]
            ELSE bench.read_buffer[i]]]
    /\ UNCHANGED <<capacity, buffer, head, tail, writer, written, consumed, ref>>

NextBench ==
    \/ BW_loop \/ W_head \/ W_tail \/ W_store \/ W_advance \/ BW_return
    \/ BR_loop \/ R_head \/ R_tail \/ R_load \/ R_advance \/ BR_return

SpecBench == InitBench /\ [][NextBench]_vars

----------------------------------------------------------------------------
(* A sequential run of writes and reads, with the baseline queue of        *)
(* vecdeque.rs given the same calls                                        *)

\* A plausible slip: > for >=, a burst that fills the queue is refused.
QueueWrite_Strict(queue, cap, elements) ==
    IF cap - Len(queue) > Len(elements)
    THEN [queue |-> queue \o elements, ret |-> Len(elements), data |-> <<>>]
    ELSE [queue |-> queue, ret |-> 0, data |-> <<>>]

\* vecdeque::RingBuffer::write on a queue of capacity cap.
QueueWrite(queue, cap, elements) ==
    IF cap - Len(queue) >= Len(elements)
    THEN [queue |-> queue \o elements, ret |-> Len(elements), data |-> <<>>]
    ELSE [queue |-> queue, ret |-> 0, data |-> <<>>]

\* vecdeque::RingBuffer::read into a buffer of n elements.
QueueRead(queue, n) ==
    IF Len(queue) >= n
    THEN [queue |-> SubSeq(queue, n + 1, Len(queue)), ret |-> n,
          data |-> SubSeq(queue, 1, n)]
    ELSE [queue |-> queue, ret |-> 0, data |-> <<>>]

\* The calls of the scenario of the specification's section 8, on a buffer
\* of capacity 4, with the count and the data each is to return.
Scenario ==
    << [op |-> "write", n |-> 4, ret |-> 4, data |-> <<>>],
       [op |-> "write", n |-> 1, ret |-> 0, data |-> <<>>],
       [op |-> "read",  n |-> 2, ret |-> 2, data |-> <<1, 2>>],
       [op |-> "write", n |-> 1, ret |-> 1, data |-> <<>>],
       [op |-> "read",  n |-> 3, ret |-> 3, data |-> <<3, 4, 5>>],
       [op |-> "read",  n |-> 1, ret |-> 0, data |-> <<>>] >>

\* How many calls of the scenario the run has made so far, when it made
\* no other call (-1 once it left the scenario).
ScenarioStep(op, n) ==
    IF /\ capacity = 4
       /\ ref.scen >= 0
       /\ ref.scen < Len(Scenario)
       /\ Scenario[ref.scen + 1].op = op
       /\ Scenario[ref.scen + 1].n = n
    THEN ref.scen + 1
    ELSE -1

InitSeq ==
    /\ \E cap \in 0..SeqMaxCap : New(cap)
    /\ bench = NoBench
    /\ ref = NoRef

\* write is called while no read runs.
SW_call ==
    /\ reader.pc = "idle"
    /\ Len(written) < SeqMaxElems
    /\ \E n \in 0..SeqMaxBurst :
         /\ WriteBegin(Offer(n))
         /\ ref' = LET r == QueueWrite(ref.queue, capacity, Offer(n))
                    IN  [queue |-> r.queue, ret |-> r.ret, data |-> r.data,
                         scen |-> ScenarioStep("write", n),
                         lock |-> ref.lock]
    /\ UNCHANGED <<capacity, buffer, head, tail, reader, written, consumed,
                   bench>>

\* read is called while no write runs.
SR_call ==
    /\ writer.pc = "idle"
    /\ \E n \in 0..SeqMaxBurst :
         /\ ReadBegin(Zeros(n))
         /\ ref' = LET r == QueueRead(ref.queue, n)
                    IN  [queue |-> r.queue, ret |-> r.ret, data |-> r.data,
                         scen |-> ScenarioStep("read", n),
                         lock |-> ref.lock]
    /\ UNCHANGED <<capacity, buffer, head, tail, writer, written, consumed,
                   bench>>

NextSeq ==
    \/ SW_call \/ W_head \/ W_tail \/ W_store \/ W_advance \/ W_return
    \/ SR_call \/ R_head \/ R_tail \/ R_load \/ R_advance \/ R_return

SpecSeq == InitSeq /\ [][NextSeq]_vars

----------------------------------------------------------------------------
(* Properties *)

\* The counter positions written and not yet read, [head, tail), and the
\* slots they are stored in.
LivePositions == {WrappingAdd(head, k) : k \in 0..(WrappingSub(tail, head) - 1)}

LiveSlots == {p % capacity : p \in LivePositions}

\* No element was stored yet at a position past 2^CounterBits - 1, the
\* last one before tail wraps to 0.
BeforeWrap ==
    Len(written) + (IF writer.pc \in {"store", "advance"}
                    THEN writer.burst_size ELSE 0) <= Modulus

\* The slots the running write has yet to store into, and the slots the
\* running read has yet to load.
PendingStores ==
    {WriterSlot(writer.current_index, i, capacity) :
        i \in writer.index..(writer.burst_size - 1)}

PendingLoads ==
    {ReaderSlot(reader.current_index, i, capacity) :
        i \in reader.index..(reader.burst_size - 1)}

\* C1: at every moment of every interleaving, the elements returned by
\* reads so far are a prefix of the elements accepted by writes so far.
C1_FifoPrefix == IsPrefix(consumed, written)

\* C1, until a cursor wraps: the same prefix property.
C1_FifoPrefixBeforeWrap == BeforeWrap => IsPrefix(consumed, written)

\* C2: the producer loop and the consumer loop of ring_buffer_1 run to
\* their end (neither aborts), and the consumer then holds 0..v1.
C2_RoundTrip ==
    /\ writer.pc # "panic"
    /\ reader.pc # "panic"
    /\ reader.pc = "done" => bench.read_buffer = WriteBufferSlice(0, bench.v1)

\* C3: write returns 0 or the length of its slice, never a count between.
C3_AllOrNothingWrite ==
    writer.pc = "ret" => writer.ret \in {0, Len(writer.buf)}

\* C4: read returns 0 or the length of its buffer, never a count between.
C4_AllOrNothingRead ==
    reader.pc = "ret" => reader.ret \in {0, Len(reader.buf)}

\* C5: in every state, between the steps of the operations too, the
\* wraparound difference tail - head lies in 0..capacity.
C5_CapacityInvariant ==
    /\ WrappingSub(tail, head) >= 0
    /\ WrappingSub(tail, head) <= capacity

\* C5's case: the buffer is full with tail wrapped and head not yet, while
\* a read is between two of its loads.
C5_Witness ==
    /\ capacity >= 2
    /\ WrappingSub(tail, head) = capacity
    /\ tail < head
    /\ reader.pc = "load"
    /\ reader.index >= 1

\* C6: the slot a write is about to store into holds no element of a
\* position in [head, tail), and what it holds was already returned by a
\* completed read (or is the zero of construction).
C6_NoOverwriteUnread ==
    (writer.pc = "store" /\ capacity > 0) =>
        LET s == WriterSlot(writer.current_index, writer.index, capacity)
        IN  /\ s \notin LiveSlots
            /\ buffer[s] <= Len(consumed)

\* C6, until a cursor wraps.
C6_NoOverwriteUnreadBeforeWrap == BeforeWrap => C6_NoOverwriteUnread

\* C7: tail is advanced only after every store of the burst; the position
\* a read is about to load lies below the tail it loaded, and its slot
\* holds the element written for that position; the slots a running write
\* has yet to store and the slots a running read has yet to load are
\* disjoint.
C7_PublishAfterWrite ==
    /\ writer.pc = "advance" => writer.index = writer.burst_size
    /\ (reader.pc = "load" /\ capacity > 0) =>
        /\ WrappingSub(WrappingAdd(reader.current_index, reader.index),
                       reader.head_index)
             < WrappingSub(reader.tail_index, reader.head_index)
        /\ Len(consumed) + reader.index + 1 <= Len(written)
        /\ buffer[ReaderSlot(reader.current_index, reader.index, capacity)]
             = written[Len(consumed) + reader.index + 1]
    /\ (writer.pc = "store" /\ reader.pc = "load" /\ capacity > 0) =>
        PendingStores \cap PendingLoads = {}

\* C7, until a cursor wraps.
C7_PublishAfterWriteBeforeWrap == BeforeWrap => C7_PublishAfterWrite

\* C8 as stated: across every step, neither tail nor head ever decreases.
C8_NeverDecreases == [][tail' >= tail /\ head' >= head]_vars

\* C8 as amended: every change of tail is the writer's advance by the
\* count (1..capacity) its write returns, modulo 2^CounterBits, and every
\* change of head is the reader's advance by the count its read returns.
C8_AdvancesByCount ==
    [][ /\ tail' # tail =>
            /\ writer'.pc = "ret"
            /\ writer'.ret \in 1..capacity
            /\ tail' = WrappingAdd(tail, writer'.ret)
        /\ head' # head =>
            /\ reader'.pc = "ret"
            /\ reader'.ret \in 1..capacity
            /\ head' = WrappingAdd(head, reader'.ret) ]_vars

\* C8's case: a write and a read have both just advanced their cursors,
\* and tail has wrapped while head has not.
C8_Witness ==
    /\ writer.pc = "ret" /\ writer.ret > 0
    /\ reader.pc = "ret" /\ reader.ret > 0
    /\ tail < head

\* C9: in a sequential run the scenario's calls return the scenario's
\* counts and data ...
C9_ScenarioResults ==
    (ref.scen >= 1) =>
        LET call == Scenario[ref.scen]
        IN  /\ (call.op = "write" /\ writer.pc = "ret") => writer.ret = call.ret
            /\ (call.op = "read" /\ reader.pc = "ret") =>
                /\ reader.ret = call.ret
                /\ SubSeq(reader.buf, 1, reader.ret) = call.data

\* ... and every call returns the count and the data the bounded queue
\* returns for it.
C9_MatchesQueue ==
    /\ writer.pc = "ret" => writer.ret = ref.ret
    /\ reader.pc = "ret" =>
        /\ reader.ret = ref.ret
        /\ SubSeq(reader.buf, 1, reader.ret) = ref.data

\* C9: the scenario of section 8 and, more generally, agreement of a
\* sequential run with a bounded FIFO queue of the same capacity.
C9_SequentialFifo == C9_ScenarioResults /\ C9_MatchesQueue

\* The scenario was run to its end.
C9_ScenarioDone == ref.scen = Len(Scenario) /\ reader.pc = "ret"

\* C10: with capacity 0 every write and read returns 0, no cursor moves,
\* and no call reaches the slot computation (or panics).
C10_ZeroCapacity ==
    (capacity = 0) =>
        /\ head = 0 /\ tail = 0
        /\ writer.current_index = 0 /\ reader.current_index = 0
        /\ writer.pc \in {"idle", "head", "tail", "ret"}
        /\ reader.pc \in {"idle", "head", "tail", "ret"}
        /\ writer.pc = "ret" => writer.ret = 0
        /\ reader.pc = "ret" => reader.ret = 0
        /\ written = <<>> /\ consumed = <<>>

\* C10's case: on a buffer of capacity 0, a write of a non-empty slice and
\* a read into a non-empty buffer have both returned.
C10_Witness ==
    /\ capacity = 0
    /\ writer.pc = "ret" /\ Len(writer.buf) > 0
    /\ reader.pc = "ret" /\ Len(reader.buf) > 0

\* C11: with capacity > 0 no operation panics: the (head, tail) pair that
\* Writer::available loads never makes capacity - (tail - head) underflow,
\* and every slot and every slice index a store or a load uses is in range.
C11_NoPanic ==
    (capacity > 0) =>
        /\ writer.pc # "panic"
        /\ reader.pc # "panic"
        /\ writer.pc = "tail" =>
             ~WriterAvailableOverflows(capacity, writer.head_index, tail)
        /\ writer.pc \in {"store", "advance"} =>
             WrappingSub(writer.tail_index, writer.head_index) <= capacity
        /\ writer.pc = "store" =>
             /\ WriterSlot(writer.current_index, writer.index, capacity)
                  \in DOMAIN buffer
             /\ writer.index + 1 \in DOMAIN writer.buf
        /\ reader.pc = "load" =>
             /\ ReaderSlot(reader.current_index, reader.index, capacity)
                  \in DOMAIN buffer
             /\ reader.index + 1 \in DOMAIN reader.buf

\* C11's case: the writer loaded head while the buffer was full, the reader
\* advanced head since, and the writer is about to load a wrapped tail.
C11_Witness ==
    /\ capacity > 0
    /\ writer.pc = "tail"
    /\ head # writer.head_index
    /\ WrappingSub(tail, writer.head_index) = capacity
    /\ tail < writer.head_index

\* C13: for every capacity >= 1, also after the cursors wrapped: the
\* positions in [head, tail) map to pairwise distinct slots, the element
\* written for each of them is the one its slot holds, and the elements
\* read stay a prefix of the elements written.
C13_WraparoundCorrect ==
    (capacity >= 1) =>
        /\ Cardinality(LiveSlots) = Cardinality(LivePositions)
        /\ \A k \in 0..(WrappingSub(tail, head) - 1) :
             /\ Len(consumed) + k + 1 <= Len(written)
             /\ buffer[WrappingAdd(head, k) % capacity]
                  = written[Len(consumed) + k + 1]
        /\ IsPrefix(consumed, written)

\* C13, for the capacities that divide 2^CounterBits.
C13_WraparoundCorrectPowerOfTwo ==
    (capacity >= 1 /\ Modulus % capacity = 0) => C13_WraparoundCorrect

\* A cursor wrapped on a buffer whose capacity divides 2^CounterBits, and
\* a read returned elements stored past the wrap.
C13_PowerOfTwoWrapped ==
    /\ capacity = 2
    /\ Len(consumed) > Modulus
    /\ reader.pc = "ret" /\ reader.ret = 2

\* C15: tail is the sum of the counts returned by write and head the sum
\* of the counts returned by read, both modulo 2^CounterBits, so that the
\* wraparound difference tail - head is the number of elements written and
\* not yet read.
C15_CursorAccounting ==
    /\ tail = Len(written) % Modulus
    /\ head = Len(consumed) % Modulus
    /\ WrappingSub(tail, head) = Len(written) - Len(consumed)

\* C15's case: tail has wrapped and head has not, and a write has just
\* returned a count of 2 or more.
C15_Witness ==
    /\ Len(written) > Modulus
    /\ Len(consumed) < Modulus
    /\ Len(consumed) > 0
    /\ writer.pc = "ret" /\ writer.ret >= 2

\* C16: no step of a write changes head, no step of a read changes tail
\* or a slot; tail changes only in the writer's fetch_add, head only in
\* the reader's fetch_add, a slot only in a store of the writer's loop.
C16_CursorOwnership ==
    [][ /\ writer' # writer => head' = head
        /\ reader' # reader => (tail' = tail /\ buffer' = buffer)
        /\ tail' # tail => (writer.pc = "advance" /\ writer' # writer)
        /\ head' # head => (reader.pc = "advance" /\ reader' # reader)
        /\ buffer' # buffer => (writer.pc = "store" /\ writer' # writer)
      ]_vars

\* C16's case: after earlier advances of both cursors, a write is between
\* two of its stores while a read is about to load a slot.
C16_Witness ==
    /\ writer.pc = "store" /\ writer.index >= 1
    /\ reader.pc = "load"
    /\ head > 0

\* C19: outside a panic, Writer.current_index is the shared tail and
\* Reader.current_index the shared head, and while a call's loop runs they
\* are the tail and the head its availability check loaded.
C19_CachedIndexAgreement ==
    /\ writer.pc # "panic" => writer.current_index = tail
    /\ reader.pc # "panic" => reader.current_index = head
    /\ writer.pc \in {"store", "advance"} =>
         writer.current_index = writer.tail_index
    /\ reader.pc \in {"load", "advance"} =>
         reader.current_index = reader.head_index

\* C19's case: both handles are idle after the cursors wrapped.
C19_Witness ==
    /\ writer.pc = "idle" /\ reader.pc = "idle"
    /\ Len(consumed) > Modulus
    /\ tail # head
    /\ capacity = 3

\* The steps of a running write, and of a running read.
WriterStep == W_head \/ W_tail \/ W_store \/ W_advance \/ W_return

ReaderStep == R_head \/ R_tail \/ R_load \/ R_advance \/ R_return

\* A bound on the steps a call has yet to take: two loads, one store or
\* load per element, the fetch_add and the return.
StepsLeft(h) ==
    CASE h.pc = "head"              -> Len(h.buf) + 4
      [] h.pc = "tail"              -> Len(h.buf) + 3
      [] h.pc \in {"store", "load"} -> (h.burst_size - h.index) + 2
      [] h.pc = "advance"           -> 2
      [] h.pc = "ret"               -> 1
      [] OTHER                      -> 0

FreeAtCall(h) == capacity - WrappingSub(h.pre.tail, h.pre.head)

FilledAtCall(h) == WrappingSub(h.pre.tail, h.pre.head)

\* C14: a write called with n >= 1 elements when the free space was at
\* least n returns n, and a read called with an n-element buffer when the
\* filled count was at least n returns n; what the other thread does in
\* the meantime keeps the burst fitting at every load of the cursors.
C14_FittingBurstGranted ==
    /\ (/\ writer.pc \in {"head", "tail", "store", "advance", "ret"}
        /\ Len(writer.buf) >= 1
        /\ FreeAtCall(writer) >= Len(writer.buf)) =>
          /\ writer.pc \in {"head", "tail"} =>
               capacity - WrappingSub(tail, head) >= Len(writer.buf)
          /\ writer.pc = "tail" =>
               WriterAvailable(capacity, writer.head_index, tail)
                 >= Len(writer.buf)
          /\ writer.pc \in {"store", "advance"} =>
               writer.burst_size = Len(writer.buf)
          /\ writer.pc = "ret" => writer.ret = Len(writer.buf)
    /\ (/\ reader.pc \in {"head", "tail", "load", "advance", "ret"}
        /\ Len(reader.buf) >= 1
        /\ FilledAtCall(reader) >= Len(reader.buf)) =>
          /\ reader.pc \in {"head", "tail"} =>
               WrappingSub(tail, head) >= Len(reader.buf)
          /\ reader.pc = "tail" =>
               ReaderAvailable(reader.head_index, tail) >= Len(reader.buf)
          /\ reader.pc \in {"load", "advance"} =>
               reader.burst_size = Len(reader.buf)
          /\ reader.pc = "ret" => reader.ret = Len(reader.buf)

\* C14's case: a write of 2 that fitted exactly and a read that fitted
\* exactly have both returned their full count, each having run while the
\* other moved its cursor.
C14_Witness ==
    /\ writer.pc = "ret" /\ writer.ret = 2 /\ Len(writer.buf) = 2
    /\ FreeAtCall(writer) = 2
    /\ head # writer.pre.head
    /\ reader.pc = "ret" /\ reader.ret >= 1 /\ reader.ret = Len(reader.buf)
    /\ FilledAtCall(reader) = reader.ret
    /\ tail # reader.pre.tail

\* C17 as stated: whenever a call returns 0, both cursors, the storage,
\* the handle's current_index and (for a read) the caller's buffer are
\* what they were when the call was made.
C17_RefusedChangesNothing ==
    [][ /\ (writer.pc = "ret" /\ writer' # writer /\ writer.ret = 0) =>
              /\ tail = writer.pre.tail
              /\ head = writer.pre.head
              /\ buffer = writer.pre.storage
              /\ writer.current_index = writer.pre.current_index
        /\ (reader.pc = "ret" /\ reader' # reader /\ reader.ret = 0) =>
              /\ tail = reader.pre.tail
              /\ head = reader.pre.head
              /\ reader.current_index = reader.pre.current_index
              /\ reader.buf = reader.pre.out
      ]_vars

\* C17, amended: at a return of 0 everything the call could have changed
\* is what it was when the call was made (for a write tail, the storage
\* and current_index; for a read head, current_index and the caller's
\* buffer), and no step of a call changes what the other thread owns, so
\* the other cursor differs only by the other thread's own progress.
C17_RefusedCallChangesNothing ==
    /\ []((writer.pc = "ret" /\ writer.ret = 0) =>
            /\ tail = writer.pre.tail
            /\ buffer = writer.pre.storage
            /\ writer.current_index = writer.pre.current_index)
    /\ []((reader.pc = "ret" /\ reader.ret = 0) =>
            /\ head = reader.pre.head
            /\ reader.current_index = reader.pre.current_index
            /\ reader.buf = reader.pre.out)
    /\ [][ /\ writer' # writer => head' = head
           /\ reader' # reader => (tail' = tail /\ buffer' = buffer)
         ]_vars

\* C17's case: a write of a non-empty slice and a read into a non-empty
\* buffer have both returned 0, and the head moved while the refused
\* write was running.
C17_Witness ==
    /\ writer.pc = "ret" /\ writer.ret = 0 /\ Len(writer.buf) >= 1
    /\ head # writer.pre.head
    /\ reader.pc = "ret" /\ reader.ret = 0 /\ Len(reader.buf) >= 1

----------------------------------------------------------------------------
(* The baseline of vecdeque.rs: a VecDeque behind a Mutex, one thread       *)
(* calling write and one calling read (ring_buffer_2)                       *)

\* vecdeque::RingBuffer::new(requested): VecDeque::with_capacity gives an
\* empty deque with room for at least the requested count; capacity is
\* what VecDeque::capacity() then returns.  The mutex starts unlocked.
InitQueue ==
    /\ \E requested \in 0..QMaxCap : \E cap \in requested..QMaxCap :
         capacity = cap
    /\ buffer = <<>>
    /\ head = 0
    /\ tail = 0
    /\ writer = Handle(0)
    /\ reader = Handle(0)
    /\ written = <<>>
    /\ consumed = <<>>
    /\ bench = NoBench
    /\ ref = NoRef

\* A caller calls write with a slice of n elements.
Q_wcall ==
    /\ writer.pc = "idle"
    /\ Len(written) < QMaxElems
    /\ \E n \in 0..QMaxBurst :
         writer' = [writer EXCEPT !.pc = "lock", !.buf = Offer(n)]
    /\ UNCHANGED <<capacity, buffer, head, tail, reader, written, consumed,
                   bench, ref>>

\* self.inner.lock(): waits until the mutex is free, then holds it.
Q_wlock ==
    /\ writer.pc = "lock"
    /\ ref.lock = "free"
    /\ ref' = [ref EXCEPT !.lock = "writer"]
    /\ writer' = [writer EXCEPT !.pc = "locked"]
    /\ UNCHANGED <<capacity, buffer, head, tail, reader, written, consumed,
                   bench>>

\* The body of write, run under the lock: the check of the space and the
\* push_back of every element of the slice.
Q_wbody ==
    /\ writer.pc = "locked"
    /\ LET r == QueueWrite(ref.queue, capacity, writer.buf)
       IN  /\ ref' = [ref EXCEPT !.queue = r.queue]
           /\ writer' = [writer EXCEPT !.pc = "ret", !.ret = r.ret]
           /\ written' = written \o SubSeq(writer.buf, 1, r.ret)
    /\ UNCHANGED <<capacity, buffer, head, tail, reader, consumed, bench>>

\* write returns: the guard is dropped, the mutex is free again.
Q_wreturn ==
    /\ writer.pc = "ret"
    /\ ref' = [ref EXCEPT !.lock = "free"]
    /\ writer' = Handle(0)
    /\ UNCHANGED <<capacity, buffer, head, tail, reader, written, consumed,
                   bench>>

\* A caller calls read with a buffer of n elements.
Q_rcall ==
    /\ reader.pc = "idle"
    /\ \E n \in 0..QMaxBurst :
         reader' = [reader EXCEPT !.pc = "lock", !.buf = Zeros(n)]
    /\ UNCHANGED <<capacity, buffer, head, tail, writer, written, consumed,
                   bench, ref>>

\* self.inner.lock(): waits until the mutex is free, then holds it.
Q_rlock ==
    /\ reader.pc = "lock"
    /\ ref.lock = "free"
    /\ ref' = [ref EXCEPT !.lock = "reader"]
    /\ reader' = [reader EXCEPT !.pc = "locked"]
    /\ UNCHANGED <<capacity, buffer, head, tail, writer, written, consumed,
                   bench>>

\* The body of read, run under the lock: the check of the length and the
\* pop_front into every element of the caller's buffer.
Q_rbody ==
    /\ reader.pc = "locked"
    /\ LET r == QueueRead(ref.queue, Len(reader.buf))
       IN  /\ ref' = [ref EXCEPT !.queue = r.queue]
           /\ reader' = [reader EXCEPT
                !.pc = "ret", !.ret = r.ret,
                !.buf = IF r.ret = Len(reader.buf) THEN r.data ELSE @]
           /\ consumed' = consumed \o r.data
    /\ UNCHANGED <<capacity, buffer, head, tail, writer, written, bench>>

\* read returns: the guard is dropped, the mutex is free again.
Q_rreturn ==
    /\ reader.pc = "ret"
    /\ ref' = [ref EXCEPT !.lock = "free"]
    /\ reader' = Handle(0)
    /\ UNCHANGED <<capacity, buffer, head, tail, writer, written, consumed,
                   bench>>

NextQueue ==
    \/ Q_wcall \/ Q_wlock \/ Q_wbody \/ Q_wreturn
    \/ Q_rcall \/ Q_rlock \/ Q_rbody \/ Q_rreturn

SpecQueue == InitQueue /\ [][NextQueue]_vars

----------------------------------------------------------------------------
(* Properties of the baseline queue *)

\* C18: in every interleaving of the baseline's write and read calls, the
\* queue never holds more than capacity elements, what was read is a
\* prefix of what was written (the queue holding the rest, in order), a
\* write of n appends its n elements and returns n exactly when
\* capacity - length >= n and else returns 0 with the queue unchanged,
\* and a read of n pops n from the front exactly when length >= n and else
\* returns 0.
C18_BaselineQueue ==
    /\ [](/\ Len(ref.queue) <= capacity
          /\ IsPrefix(consumed, written)
          /\ written = consumed \o ref.queue)
    /\ [][ /\ (writer.pc = "locked" /\ writer' # writer) =>
                IF capacity - Len(ref.queue) >= Len(writer.buf)
                THEN /\ ref'.queue = ref.queue \o writer.buf
                     /\ writer'.ret = Len(writer.buf)
                ELSE /\ ref'.queue = ref.queue
                     /\ writer'.ret = 0
           /\ (reader.pc = "locked" /\ reader' # reader) =>
                IF Len(ref.queue) >= Len(reader.buf)
                THEN /\ ref.queue = reader'.buf \o ref'.queue
                     /\ reader'.ret = Len(reader.buf)
                ELSE /\ ref'.queue = ref.queue
                     /\ reader'.buf = reader.buf
                     /\ reader'.ret = 0
           /\ ref'.queue # ref.queue =>
                \/ writer.pc = "locked" /\ writer' # writer
                \/ reader.pc = "locked" /\ reader' # reader
         ]_vars

\* C18's case: a write that filled the queue to its capacity has returned
\* its count, reads having popped elements before it, and a read is
\* waiting for the lock.
C18_Witness ==
    /\ capacity >= 2
    /\ writer.pc = "ret" /\ writer.ret >= 2
    /\ Len(ref.queue) = capacity
    /\ Len(consumed) >= 1
    /\ reader.pc = "lock"

=============================================================================
